---- MODULE Spec2Model ----
(***************************************************************************)
(* A model of src/dataset.py: the city catalog and its population filter,  *)
(* the graph cache directory populated by write_city_graph, the lazy       *)
(* directory iteration, the per-city metrics record and the stats table     *)
(* with its CSV round trip.                                                 *)
(*                                                                          *)
(* Python values are tagged records, so that an int and the string holding  *)
(* its decimal digits are different values: [int |-> 7], [str |-> <<"7">>], *)
(* [float |-> thousandths], [nan |-> TRUE].  A Python string is the         *)
(* sequence of its characters.                                              *)
(***************************************************************************)
EXTENDS Integers, Sequences, FiniteSets, TLC

VARIABLES
    cache_dir,    \* CITIES_GRAPHS_PATH: file name -> file content
    pending,      \* rows write_cities_graphs has still to iterate over
    last,         \* the most recent write_city_graph call and how it ended
    gen,          \* the generator of iterate_over_downloaded_cities_graphs
    table,        \* the DataFrame create_stats_df_for_downloaded_cities_graphs returned
    stats_csv,    \* PROCESSED_DATASET_PATH / "stats.csv"
    loaded,       \* the DataFrame load_processed_dataset returned
    mode,         \* which part of the module the behaviour exercises
    args,         \* the arguments of the pure function under check
    result        \* its result

vars == <<cache_dir, pending, last, gen, table, stats_csv, loaded, mode,
          args, result>>

----------------------------------------------------------------------------
(* Bounds of the model *)

\* the rows of a dataset file
MaxCities == 2
\* the largest geoname_id of a key whose file name is encoded and decoded
MaxKeyId == 12
\* the nodes of a graph given to the metrics, and their streets-per-node
MaxNodes == 4
MaxDegree == 3

(* Python values *)

None == [none |-> TRUE]
NaN == [nan |-> TRUE]
PyInt(n) == [int |-> n]
PyStr(s) == [str |-> s]
PyFloat(thousandths) == [float |-> thousandths]
PyDict(d) == [dict |-> d]

IsInt(v) == DOMAIN v = {"int"}
IsStr(v) == DOMAIN v = {"str"}
IsFloat(v) == DOMAIN v = {"float"}
IsNaN(v) == DOMAIN v = {"nan"}

RECURSIVE Perms(_)
Perms(S) ==
    IF S = {} THEN {<<>>}
    ELSE UNION {{<<x>> \o q : q \in Perms(S \ {x})} : x \in S}

RECURSIVE SeqsUpTo(_, _)
SeqsUpTo(S, n) ==
    IF n = 0 THEN {<<>>}
    ELSE LET shorter == SeqsUpTo(S, n - 1)
         IN shorter \cup {Append(q, x) : q \in shorter, x \in S}

----------------------------------------------------------------------------
(* Strings *)

DigitChars == <<"0", "1", "2", "3", "4", "5", "6", "7", "8", "9">>

RECURSIVE Digits(_)
Digits(n) == IF n < 10 THEN <<DigitChars[n + 1]>>
             ELSE Digits(n \div 10) \o <<DigitChars[(n % 10) + 1]>>

\* str(v), as an f-string field formats an int or a str
Format(v) == IF IsInt(v) THEN Digits(v.int) ELSE v.str

\* str.split(sep)
RECURSIVE Split(_, _)
Split(s, sep) ==
    IF \A i \in 1..Len(s) : s[i] # sep THEN <<s>>
    ELSE LET i == CHOOSE j \in 1..Len(s) :
                      s[j] = sep /\ \A k \in 1..(j - 1) : s[k] # sep
         IN <<SubSeq(s, 1, i - 1)>> \o Split(SubSeq(s, i + 1, Len(s)), sep)

EndsWith(s, t) ==
    Len(s) >= Len(t) /\ SubSeq(s, Len(s) - Len(t) + 1, Len(s)) = t

Contains(s, t) ==
    \E i \in 1..(Len(s) - Len(t) + 1) : SubSeq(s, i, i + Len(t) - 1) = t

\* A dict is a function from its keys; a key is a string.
K_n == <<"n">>
K_m == <<"m">>
K_area == <<"a", "r", "e", "a">>
K_geoname_id == <<"g", "e", "o", "n", "a", "m", "e", "_", "i", "d">>
K_name == <<"n", "a", "m", "e">>
K_country_code == <<"c", "o", "u", "n", "t", "r", "y", "_", "c", "o", "d", "e">>
K_streets_per_node_counts ==
    <<"s", "t", "r", "e", "e", "t", "s", "_", "p", "e", "r", "_", "n", "o",
      "d", "e", "_", "c", "o", "u", "n", "t", "s">>
K_streets_per_node_proportions ==
    <<"s", "t", "r", "e", "e", "t", "s", "_", "p", "e", "r", "_", "n", "o",
      "d", "e", "_", "p", "r", "o", "p", "o", "r", "t", "i", "o", "n", "s">>
WayIntCount == <<"_", "w", "a", "y", "_", "i", "n", "t", "_", "c", "o", "u", "n", "t">>
WayIntProp == <<"_", "w", "a", "y", "_", "i", "n", "t", "_", "p", "r", "o", "p">>
WayInt == <<"_", "w", "a", "y", "_", "i", "n", "t", "_">>

GraphmlSuffix == <<".", "g", "r", "a", "p", "h", "m", "l">>

\* PurePath.stem: the file name without its last suffix
Stem(f) ==
    LET dots == {i \in 2..Len(f) : f[i] = "."}
    IN IF dots = {} \/ f[Len(f)] = "." THEN f
       ELSE SubSeq(f, 1, (CHOOSE i \in dots : \A j \in dots : j <= i) - 1)

----------------------------------------------------------------------------
(* CityCatalog: load_dataset, get_cities_with_population *)

BatchFromPopulation == 100000
BatchToPopulation == 110000

City(id, name, cc) ==
    [geoname_id |-> PyInt(id), name |-> PyStr(name), country_code |-> PyStr(cc)]

\* The identities the catalogs draw from: one geoname_id under two names
\* and country codes, a name that holds the separator, and two cities that
\* differ in geoname_id alone.
Cities ==
    {City(1, <<"a">>, <<"P", "L">>),
     City(1, <<"b">>, <<"N", "A">>),
     City(2, <<"a", "_", "b">>, <<"P", "L">>),
     City(12, <<"a">>, <<"P", "L">>)}

Row(c, p) ==
    [geoname_id |-> c.geoname_id, name |-> c.name,
     country_code |-> c.country_code, population |-> PyInt(p)]

\* the populations of the rows: around both ends of the batch's band
Populations ==
    {BatchFromPopulation - 1, BatchFromPopulation,
     BatchToPopulation, BatchToPopulation + 1}

CityRecords == {Row(c, p) : c \in Cities, p \in Populations}

UniqueIds(c) ==
    \A i, j \in 1..Len(c) : c[i].geoname_id = c[j].geoname_id => i = j

\* the dataset files the batch meets: geoname_id is unique across a catalog
Catalogs ==
    {c \in SeqsUpTo({Row(c, p) : c \in Cities,
                        p \in {BatchFromPopulation - 1, BatchToPopulation}},
                    MaxCities) : UniqueIds(c)}

\* the bug of a bound that excludes to_population itself
InBandStrictUpper(row, from_population, to_population) ==
    /\ row.population.int >= from_population
    /\ row.population.int < to_population

InBand(row, from_population, to_population) ==
    /\ row.population.int >= from_population
    /\ row.population.int <= to_population

get_cities_with_population(dataset, from_population, to_population) ==
    LET Keep(row) == InBand(row, from_population, to_population)
    IN SelectSeq(dataset, Keep)

----------------------------------------------------------------------------
(* GraphCache: download_city_graph, write_city_graph *)

Truncated == [truncated |-> TRUE]

\* A graph as the metrics see it: the streets-per-node value of each node,
\* the edge count, and the convex hull area in thousandths of a square metre.
CycleGraph == [spn |-> <<2, 2, 2, 2>>, m |-> 4, hull |-> 1000000]
StarGraph == [spn |-> <<1, 3, 1, 1>>, m |-> 3, hull |-> 2500500]

\* osmnx.graph_from_place(f"{name}, {country_code}") when the place resolves:
\* the street network is a matter of the place queried, not of the row
download_city_graph(row) ==
    IF row.country_code.str = <<"N", "A">> THEN StarGraph ELSE CycleGraph

\* the bug of deriving the path from the name and country code alone
graph_path_no_id(row) ==
    Format(row.name) \o <<"_">> \o Format(row.country_code) \o GraphmlSuffix

graph_path(row) ==
    Format(row.geoname_id) \o <<"_">> \o Format(row.name) \o <<"_">>
        \o Format(row.country_code) \o GraphmlSuffix

\* What a call that finds no file can meet: the place does not resolve
\* (ValueError), the download raises another error, the graph is saved, or
\* save_graphml is interrupted after it has opened the file at graph_path
\* and written part of it.
Outcomes == {"ValueError", "Error", "saved", "truncated"}

\* the bug of fetching without looking for the file
outcome_no_exists_check(dir, row, outcome) == outcome

write_city_graph_outcome(dir, row, outcome) ==
    IF graph_path(row) \in DOMAIN dir THEN "cached" ELSE outcome

\* the number of download_city_graph calls of a write_city_graph call
Fetched(o) == IF o = "cached" THEN 0 ELSE 1

\* the bug of catching nothing
RaisesNoSuppress(o) == o \in {"ValueError", "Error", "truncated"}

\* does the call raise to its caller
RaisesToCaller(o) == o \in {"Error", "truncated"}

\* the directory after the call
write_city_graph_dir(dir, row, outcome) ==
    LET o == write_city_graph_outcome(dir, row, outcome)
    IN IF o = "saved" THEN (graph_path(row) :> download_city_graph(row)) @@ dir
       ELSE IF o = "truncated" THEN (graph_path(row) :> Truncated) @@ dir
       ELSE dir

\* the record of the call kept in last
CallRecord(dir, row, outcome, before) ==
    LET o == write_city_graph_outcome(dir, row, outcome)
    IN [path |-> graph_path(row), outcome |-> o,
        fetched |-> Fetched(o), raised |-> RaisesToCaller(o),
        repeat |-> /\ before # None
                   /\ before.path = graph_path(row)
                   /\ before.outcome = "saved"]

write_city_graph(row, outcome) ==
    /\ cache_dir' = write_city_graph_dir(cache_dir, row, outcome)
    /\ last' = CallRecord(cache_dir, row, outcome, last)

\* A caller's single call, outside the batch.  The program is single
\* threaded: nothing runs while write_cities_graphs is in its loop, so every
\* other operation waits for pending to be empty.
write_city_graph_call ==
    /\ mode = "pipeline"
    /\ pending = <<>>
    /\ table = None
    /\ \E c \in Cities, outcome \in Outcomes :
         write_city_graph(Row(c, BatchFromPopulation), outcome)
    /\ UNCHANGED <<pending, gen, table, stats_csv, loaded, mode, args, result>>

----------------------------------------------------------------------------
(* GraphCache: write_cities_graphs *)

\* load_dataset reads the dataset file as it is when the run starts
write_cities_graphs_begin ==
    /\ mode = "pipeline"
    /\ pending = <<>>
    /\ gen = None
    /\ table = None
    /\ \E dataset \in Catalogs :
         pending' = get_cities_with_population(dataset,
                        BatchFromPopulation, BatchToPopulation)
    /\ UNCHANGED <<cache_dir, last, gen, table, stats_csv, loaded, mode,
                   args, result>>

write_cities_graphs_step ==
    /\ mode = "pipeline"
    /\ pending # <<>>
    /\ \E outcome \in Outcomes :
         /\ write_city_graph(Head(pending), outcome)
         /\ pending' = IF last'.raised THEN <<>> ELSE Tail(pending)
    /\ UNCHANGED <<gen, table, stats_csv, loaded, mode, args, result>>

----------------------------------------------------------------------------
(* GraphCache: iterate_over_downloaded_cities_graphs *)

\* CITIES_GRAPHS_PATH.glob("*.graphml"): pathlib lists the directory in one
\* go when the first match is asked for
Glob(dir) == {f \in DOMAIN dir : EndsWith(f, GraphmlSuffix)}

\* the metadata dict of a file whose stem splits into three fields
Metadata(parts) ==
    (K_geoname_id :> PyStr(parts[1])) @@ (K_name :> PyStr(parts[2]))
        @@ (K_country_code :> PyStr(parts[3]))

\* geoname_id, name, country_code = parts: any other number of fields
\* raises ValueError
Unpacks(parts) == Len(parts) = 3

\* the file name decoded: city_graph_file.stem.split("_"), unpacked
decode(f) ==
    LET parts == Split(Stem(f), "_")
    IN IF Unpacks(parts) THEN Metadata(parts) ELSE [raised |-> "ValueError"]

\* One pass of the loop body on file f: the pair it yields, or the error
\* that ends the generator (the unpacking comes before load_graphml).
LoopBody(dir, f) ==
    LET metadata == decode(f)
    IN IF DOMAIN metadata = {"raised"} THEN metadata
       ELSE IF dir[f] = Truncated THEN [raised |-> "ParseError"]
       ELSE [file |-> f, graph |-> dir[f], metadata |-> metadata]

IsRaise(x) == DOMAIN x = {"raised"}

\* the bug of listing the directory again at every step
RescanEveryStep(g, dir) == Glob(dir) \ {y.file : y \in g.yielded}

\* the files the generator has still to visit
Remaining(g, dir) == IF g.state = "created" THEN Glob(dir) ELSE g.rest

\* Calling the generator function runs none of its body; at_call records
\* the files present at that moment.
iterate_call ==
    /\ mode = "pipeline"
    /\ pending = <<>>
    /\ table = None
    /\ gen' = [state |-> "created", at_call |-> Glob(cache_dir),
               scan |-> {}, rest |-> {}, yielded |-> {}, count |-> 0]
    /\ UNCHANGED <<cache_dir, pending, last, table, stats_csv, loaded, mode,
                   args, result>>

\* next(gen): the first one reaches the glob; each picks the next file in
\* the enumeration order, which is any order
iterate_next ==
    /\ mode = "pipeline"
    /\ pending = <<>>
    /\ gen # None
    /\ gen.state \in {"created", "running"}
    /\ LET rest == Remaining(gen, cache_dir)
           scan == IF gen.state = "created" THEN rest ELSE gen.scan
       IN IF rest = {}
          THEN gen' = [gen EXCEPT !.state = "done", !.scan = scan, !.rest = {}]
          ELSE \E f \in rest :
                 LET y == LoopBody(cache_dir, f)
                 IN IF IsRaise(y)
                    THEN gen' = [gen EXCEPT !.state = "raised", !.scan = scan,
                                            !.rest = rest \ {f}]
                    ELSE gen' = [gen EXCEPT !.state = "running", !.scan = scan,
                                            !.rest = rest \ {f},
                                            !.yielded = @ \cup {y},
                                            !.count = @ + 1]
    /\ UNCHANGED <<cache_dir, pending, last, table, stats_csv, loaded, mode,
                   args, result>>

\* the caller drops the generator
iterate_close ==
    /\ mode = "pipeline"
    /\ gen # None
    /\ gen' = None
    /\ UNCHANGED <<cache_dir, pending, last, table, stats_csv, loaded, mode,
                   args, result>>

----------------------------------------------------------------------------
(* MetricsCalculator: calculate_metrics_for_city_graph *)

\* dict.update, and d[k] = v key by key
Update(d, e) ==
    [k \in DOMAIN d \cup DOMAIN e |-> IF k \in DOMAIN e THEN e[k] ELSE d[k]]

\* dict.pop(key), its value dropped
Pop(d, key) == [k \in DOMAIN d \ {key} |-> d[k]]

MaxOf(q) == CHOOSE x \in {q[i] : i \in DOMAIN q} : \A i \in DOMAIN q : q[i] <= x

\* osmnx.stats.streets_per_node_counts and _proportions: one entry for every
\* k from 0 to the largest streets-per-node value
SpnCounts(spn) ==
    [k \in 0..MaxOf(spn) |-> PyInt(Cardinality({i \in DOMAIN spn : spn[i] = k}))]

SpnProportions(spn) ==
    [k \in 0..MaxOf(spn) |->
        PyFloat((Cardinality({i \in DOMAIN spn : spn[i] = k}) * 1000) \div Len(spn))]

\* osmnx.basic_stats, the part of its dict the module reads or passes on
basic_stats(graph) ==
    (K_n :> PyInt(Len(graph.spn)))
    @@ (K_m :> PyInt(graph.m))
    @@ (K_streets_per_node_counts :> PyDict(SpnCounts(graph.spn)))
    @@ (K_streets_per_node_proportions :> PyDict(SpnProportions(graph.spn)))

Derived(hist, suffix) ==
    [key \in {Digits(k) \o suffix : k \in DOMAIN hist} |->
        hist[CHOOSE k \in DOMAIN hist : Digits(k) \o suffix = key]]

\* the bug of leaving the two raw histograms in the record
metrics_keeps_histograms(graph, metadata) ==
    LET stats == basic_stats(graph)
        counts == Derived(stats[K_streets_per_node_counts].dict, WayIntCount)
        props == Derived(stats[K_streets_per_node_proportions].dict, WayIntProp)
    IN Update(Update(Update(Update(stats, counts), props),
                     K_area :> PyFloat(graph.hull)), metadata)

calculate_metrics_for_city_graph(graph, metadata) ==
    LET graph_area_m == PyFloat(graph.hull)
        stats == basic_stats(graph)
        counts == Derived(stats[K_streets_per_node_counts].dict, WayIntCount)
        props == Derived(stats[K_streets_per_node_proportions].dict, WayIntProp)
        derived == Update(Update(stats, counts), props)
        popped == Pop(Pop(derived, K_streets_per_node_counts),
                      K_streets_per_node_proportions)
    IN Update(Update(popped, K_area :> graph_area_m), metadata)

----------------------------------------------------------------------------
(* DatasetAggregator: create_stats_df_for_downloaded_cities_graphs *)

IsNumber(v) == IsInt(v) \/ IsFloat(v) \/ IsNaN(v)

ToFloat(v) == IF IsInt(v) THEN PyFloat(v.int * 1000) ELSE v

\* a column of ints and NaN (or floats) is a float64 column
Coerce(col) ==
    IF /\ \A i \in DOMAIN col : IsNumber(col[i])
       /\ \E i \in DOMAIN col : ~IsInt(col[i])
    THEN [i \in DOMAIN col |-> ToFloat(col[i])]
    ELSE col

\* pd.DataFrame(list of dicts): a key a dict lacks is NaN in its row
DataFrame(records) ==
    [columns |->
        [c \in UNION {DOMAIN records[i] : i \in DOMAIN records} |->
            Coerce([i \in DOMAIN records |->
                       IF c \in DOMAIN records[i] THEN records[i][c] ELSE NaN])]]

set_index(df, key) ==
    IF key \notin DOMAIN df.columns THEN [raised |-> "KeyError"]
    ELSE [index |-> df.columns[key],
          columns |-> [c \in DOMAIN df.columns \ {key} |-> df.columns[c]]]

\* the list comprehension over the generator, the files met in this order
RECURSIVE StatsList(_, _)
StatsList(dir, order) ==
    IF order = <<>> THEN [list |-> <<>>]
    ELSE LET y == LoopBody(dir, Head(order))
         IN IF IsRaise(y) THEN y
            ELSE LET rest == StatsList(dir, Tail(order))
                 IN IF IsRaise(rest) THEN rest
                    ELSE [list |->
                            <<calculate_metrics_for_city_graph(y.graph, y.metadata)>>
                                \o rest.list]

create_stats_df_for_downloaded_cities_graphs(dir, order) ==
    LET stats == StatsList(dir, order)
    IN IF IsRaise(stats) THEN stats
       ELSE set_index(DataFrame(stats.list), K_geoname_id)

IsFrame(t) == DOMAIN t = {"index", "columns"}

\* The aggregation runs its own generator to the end in one go.  It closes a
\* behaviour: it changes nothing in the directory, so what could follow it
\* is what could follow without it.
create_stats_df ==
    /\ mode \in {"pipeline", "table"}
    /\ pending = <<>>
    /\ gen = None
    /\ table = None
    /\ \E order \in Perms(Glob(cache_dir)) :
         table' = create_stats_df_for_downloaded_cities_graphs(cache_dir, order)
    /\ UNCHANGED <<cache_dir, pending, last, gen, stats_csv, loaded, mode,
                   args, result>>

----------------------------------------------------------------------------
(* DatasetAggregator: save_stats_df_for_downloaded_cities_graphs,
   load_processed_dataset *)

\* the digits after the point of repr(float): no trailing zero but the first
FractionText(f) ==
    IF f % 1000 = 0 THEN <<"0">>
    ELSE IF f % 100 = 0 THEN Digits(f \div 100)
    ELSE IF f % 10 = 0
         THEN (IF f < 100 THEN <<"0">> ELSE <<>>) \o Digits(f \div 10)
    ELSE (IF f < 10 THEN <<"0", "0">> ELSE IF f < 100 THEN <<"0">> ELSE <<>>)
             \o Digits(f)

FloatText(thousandths) ==
    Digits(thousandths \div 1000) \o <<".">> \o FractionText(thousandths % 1000)

\* the text DataFrame.to_csv writes for a cell: NaN is the empty field
CellText(v) ==
    IF IsNaN(v) THEN <<>>
    ELSE IF IsFloat(v) THEN FloatText(v.float)
    ELSE Format(v)

\* DataFrame.to_csv: the index under its name, then the columns
to_csv(df) ==
    [index_label |-> K_geoname_id,
     index |-> [i \in DOMAIN df.index |-> CellText(df.index[i])],
     columns |-> [c \in DOMAIN df.columns |->
                     [i \in DOMAIN df.columns[c] |-> CellText(df.columns[c][i])]]]

\* the fields pd.read_csv reads as NaN by default (those a cell of this
\* table can hold)
NaValues ==
    {<<>>, <<"N", "A">>, <<"N", "a", "N">>, <<"n", "a", "n">>,
     <<"n", "u", "l", "l">>, <<"N", "U", "L", "L">>, <<"N", "o", "n", "e">>,
     <<"N", "/", "A">>, <<"n", "/", "a">>, <<"#", "N", "/", "A">>,
     <<"<", "N", "A", ">">>}

IsDigit(ch) == \E d \in 1..10 : DigitChars[d] = ch

DigitValue(ch) == (CHOOSE d \in 1..10 : DigitChars[d] = ch) - 1

RECURSIVE ParseInt(_)
ParseInt(t) ==
    IF t = <<>> THEN 0
    ELSE ParseInt(SubSeq(t, 1, Len(t) - 1)) * 10 + DigitValue(t[Len(t)])

IsIntText(t) == t # <<>> /\ \A i \in 1..Len(t) : IsDigit(t[i])

IsFloatText(t) ==
    LET parts == Split(t, ".")
    IN Len(parts) = 2 /\ IsIntText(parts[1]) /\ IsIntText(parts[2])
       /\ Len(parts[2]) <= 3

ParseFloat(t) ==
    IF IsIntText(t) THEN ParseInt(t) * 1000
    ELSE LET parts == Split(t, ".")
             frac == parts[2] \o (IF Len(parts[2]) = 1 THEN <<"0", "0">>
                                  ELSE IF Len(parts[2]) = 2 THEN <<"0">>
                                  ELSE <<>>)
         IN ParseInt(parts[1]) * 1000 + ParseInt(frac)

\* the dtype pd.read_csv infers for a column and the values it parses
ParseColumn(texts) ==
    LET present == {i \in DOMAIN texts : texts[i] \notin NaValues}
    IN IF \A i \in present : IsIntText(texts[i])
       THEN IF present = DOMAIN texts
            THEN [i \in DOMAIN texts |-> PyInt(ParseInt(texts[i]))]
            ELSE [i \in DOMAIN texts |->
                     IF i \in present THEN PyFloat(ParseInt(texts[i]) * 1000)
                     ELSE NaN]
       ELSE IF \A i \in present : IsIntText(texts[i]) \/ IsFloatText(texts[i])
       THEN [i \in DOMAIN texts |->
                IF i \in present THEN PyFloat(ParseFloat(texts[i])) ELSE NaN]
       ELSE [i \in DOMAIN texts |->
                IF i \in present THEN PyStr(texts[i]) ELSE NaN]

\* pd.read_csv(file, index_col=...)
read_csv(csv, index_col) ==
    IF csv.index_label # index_col THEN [raised |-> "ValueError"]
    ELSE [index |-> ParseColumn(csv.index),
          columns |-> [c \in DOMAIN csv.columns |-> ParseColumn(csv.columns[c])]]

save_stats_df_for_downloaded_cities_graphs ==
    /\ mode = "table"
    /\ IsFrame(table)
    /\ stats_csv' = to_csv(table)
    /\ UNCHANGED <<cache_dir, pending, last, gen, table, loaded, mode, args,
                   result>>

load_processed_dataset ==
    /\ mode = "table"
    /\ stats_csv # None
    /\ loaded' = read_csv(stats_csv, K_geoname_id)
    /\ UNCHANGED <<cache_dir, pending, last, gen, table, stats_csv, mode,
                   args, result>>

----------------------------------------------------------------------------
(* Specifications *)

Init ==
    /\ mode = "pipeline"
    /\ cache_dir = <<>>
    /\ pending = <<>>
    /\ last = None
    /\ gen = None
    /\ table = None
    /\ stats_csv = None
    /\ loaded = None
    /\ args = None
    /\ result = None

Next ==
    \/ write_city_graph_call
    \/ write_cities_graphs_begin
    \/ write_cities_graphs_step
    \/ iterate_call
    \/ iterate_next
    \/ iterate_close
    \/ create_stats_df

Spec == Init /\ [][Next]_vars

\* the cache directories write_city_graph can leave behind
CacheDirs ==
    {[f \in {graph_path(Row(c, BatchFromPopulation)) : c \in S} |->
         LET c == CHOOSE c \in S : graph_path(Row(c, BatchFromPopulation)) = f
         IN IF c \in T THEN Truncated
            ELSE download_city_graph(Row(c, BatchFromPopulation))] :
        S \in SUBSET Cities, T \in SUBSET Cities}

InitTable ==
    /\ mode = "table"
    /\ cache_dir \in CacheDirs
    /\ pending = <<>>
    /\ last = None
    /\ gen = None
    /\ table = None
    /\ stats_csv = None
    /\ loaded = None
    /\ args = None
    /\ result = None

NextTable ==
    \/ create_stats_df
    \/ save_stats_df_for_downloaded_cities_graphs
    \/ load_processed_dataset

SpecTable == InitTable /\ [][NextTable]_vars

----------------------------------------------------------------------------
(* get_cities_with_population on its own *)

FilterCatalogs == {c \in SeqsUpTo(CityRecords, MaxCities) : UniqueIds(c)}

InitFilter ==
    /\ mode = "filter"
    /\ args \in [dataset : FilterCatalogs,
                 from_population : Populations, to_population : Populations]
    /\ result = None
    /\ cache_dir = <<>>
    /\ pending = <<>>
    /\ last = None
    /\ gen = None
    /\ table = None
    /\ stats_csv = None
    /\ loaded = None

get_cities_with_population_call ==
    /\ mode = "filter"
    /\ result = None
    /\ result' = [rows |-> get_cities_with_population(args.dataset,
                               args.from_population, args.to_population)]
    /\ UNCHANGED <<cache_dir, pending, last, gen, table, stats_csv, loaded,
                   mode, args>>

SpecFilter == InitFilter /\ [][get_cities_with_population_call]_vars

----------------------------------------------------------------------------
(* The file name written by write_city_graph and read back by
   iterate_over_downloaded_cities_graphs *)

KeyNames == {<<"a">>, <<"S", "t", ".", " ", "b">>, <<"a", "_", "b">>, <<"_">>}
KeyCountryCodes == {<<"P", "L">>, <<"N", "A">>}

IdentityKeys ==
    {City(id, name, cc) :
        id \in 1..MaxKeyId, name \in KeyNames, cc \in KeyCountryCodes}

InitNaming ==
    /\ mode = "naming"
    /\ args \in IdentityKeys
    /\ result = None
    /\ cache_dir = <<>>
    /\ pending = <<>>
    /\ last = None
    /\ gen = None
    /\ table = None
    /\ stats_csv = None
    /\ loaded = None

encode_call ==
    /\ mode = "naming"
    /\ result = None
    /\ result' = [path |-> graph_path(args)]
    /\ UNCHANGED <<cache_dir, pending, last, gen, table, stats_csv, loaded,
                   mode, args>>

decode_call ==
    /\ mode = "naming"
    /\ DOMAIN result = {"path"}
    /\ result' = [path |-> result.path, decoded |-> decode(result.path)]
    /\ UNCHANGED <<cache_dir, pending, last, gen, table, stats_csv, loaded,
                   mode, args>>

NextNaming == encode_call \/ decode_call

SpecNaming == InitNaming /\ [][NextNaming]_vars

----------------------------------------------------------------------------
(* calculate_metrics_for_city_graph on its own *)

MetricGraphs ==
    {[spn |-> q, m |-> Len(q), hull |-> 1000 * Len(q) + 500] :
        q \in SeqsUpTo(0..MaxDegree, MaxNodes) \ {<<>>}}

MetricMetadata ==
    {decode(graph_path(Row(c, BatchFromPopulation))) :
        c \in {x \in Cities : Unpacks(Split(Stem(graph_path(x)), "_"))}}

InitMetrics ==
    /\ mode = "metrics"
    /\ args \in [graph : MetricGraphs, metadata : MetricMetadata]
    /\ result = None
    /\ cache_dir = <<>>
    /\ pending = <<>>
    /\ last = None
    /\ gen = None
    /\ table = None
    /\ stats_csv = None
    /\ loaded = None

calculate_metrics_call ==
    /\ mode = "metrics"
    /\ result = None
    /\ result' = [stats |-> calculate_metrics_for_city_graph(args.graph,
                                args.metadata)]
    /\ UNCHANGED <<cache_dir, pending, last, gen, table, stats_csv, loaded,
                   mode, args>>

SpecMetrics == InitMetrics /\ [][calculate_metrics_call]_vars

----------------------------------------------------------------------------
(* Two write_city_graph calls in either order, from any directory the
   cache can be in *)

\* write_city_graph(first) and then write_city_graph(second), each call made
\* whether or not the one before it raised
TwoCalls(dir, first, o1, second, o2) ==
    LET mid == write_city_graph_dir(dir, first, o1)
    IN [dir |-> write_city_graph_dir(mid, second, o2),
        fetched_first |-> Fetched(write_city_graph_outcome(dir, first, o1)),
        fetched_second |-> Fetched(write_city_graph_outcome(mid, second, o2))]

InitCommute ==
    /\ mode = "commute"
    /\ cache_dir \in CacheDirs
    /\ args \in {x \in [a : Cities, b : Cities, oa : Outcomes, ob : Outcomes] :
                    x.a.geoname_id # x.b.geoname_id}
    /\ result = [ab |-> None, ba |-> None]
    /\ pending = <<>>
    /\ last = None
    /\ gen = None
    /\ table = None
    /\ stats_csv = None
    /\ loaded = None

a_then_b ==
    /\ mode = "commute"
    /\ result.ab = None
    /\ LET r == TwoCalls(cache_dir, Row(args.a, BatchFromPopulation), args.oa,
                         Row(args.b, BatchFromPopulation), args.ob)
       IN result' = [result EXCEPT !.ab = [dir |-> r.dir,
                                           fetched_a |-> r.fetched_first,
                                           fetched_b |-> r.fetched_second]]
    /\ UNCHANGED <<cache_dir, pending, last, gen, table, stats_csv, loaded,
                   mode, args>>

b_then_a ==
    /\ mode = "commute"
    /\ result.ba = None
    /\ LET r == TwoCalls(cache_dir, Row(args.b, BatchFromPopulation), args.ob,
                         Row(args.a, BatchFromPopulation), args.oa)
       IN result' = [result EXCEPT !.ba = [dir |-> r.dir,
                                           fetched_a |-> r.fetched_second,
                                           fetched_b |-> r.fetched_first]]
    /\ UNCHANGED <<cache_dir, pending, last, gen, table, stats_csv, loaded,
                   mode, args>>

NextCommute == a_then_b \/ b_then_a

SpecCommute == InitCommute /\ [][NextCommute]_vars

----------------------------------------------------------------------------
(* Properties *)

\* C1: two write_city_graph calls in a row for one city, the first of which
\* downloaded and saved the graph, call the fetcher once in total: the second
\* call fetches nothing, raises nothing and leaves the directory, with the
\* city's artifact in it, as it was.
C1_IdempotentCaching ==
    [][(/\ last # None
        /\ last.outcome = "saved"
        /\ last' # last
        /\ last'.path = last.path)
       => (/\ last'.fetched = 0
           /\ last.fetched + last'.fetched = 1
           /\ ~last'.raised
           /\ cache_dir' = cache_dir
           /\ last.path \in DOMAIN cache_dir'
           /\ cache_dir'[last.path] # Truncated)]_vars

C1_Witness ==
    /\ last # None
    /\ last.repeat
    /\ last.outcome = "cached"
    /\ last.path \in DOMAIN cache_dir

\* C2: a write_city_graph call whose place does not resolve returns without
\* raising and leaves no file at the city's path, and the loop of
\* write_cities_graphs goes on with the rows that follow.
C2_SilentSkip ==
    [][(last' # None /\ last'.outcome = "ValueError")
       => (/\ ~last'.raised
           /\ last'.path \notin DOMAIN cache_dir'
           /\ (pending # <<>> => pending' = Tail(pending)))]_vars

C2_Witness ==
    /\ last # None
    /\ last.outcome = "ValueError"
    /\ pending # <<>>
    /\ last.path \notin DOMAIN cache_dir

\* C3: every file the glob of iterate_over_downloaded_cities_graphs can
\* enumerate holds a completely written graph.
C3_NoPartialArtifact ==
    \A f \in Glob(cache_dir) : cache_dir[f] # Truncated

\* C4: for a key whose name and country code hold no "_", decoding the file
\* name write_city_graph builds gives back the key, geoname_id as the same
\* integer.
HasSeparator(v) == \E i \in 1..Len(v.str) : v.str[i] = "_"

C4_NamingRoundTrip ==
    (/\ mode = "naming"
     /\ "decoded" \in DOMAIN result
     /\ ~HasSeparator(args.name)
     /\ ~HasSeparator(args.country_code))
    => /\ DOMAIN result.decoded = {K_geoname_id, K_name, K_country_code}
       /\ result.decoded[K_geoname_id] = args.geoname_id
       /\ result.decoded[K_name] = args.name
       /\ result.decoded[K_country_code] = args.country_code

\* C5: the table create_stats_df_for_downloaded_cities_graphs returns has one
\* row per distinct geoname_id among the files of the cache directory, and
\* no geoname_id twice in its index.
GeonameIdsCached(dir) ==
    {decode(f)[K_geoname_id] : f \in {g \in Glob(dir) : ~IsRaise(decode(g))}}

C5_OneRecordPerGeonameId ==
    (mode = "pipeline" /\ IsFrame(table))
    => /\ \A i, j \in DOMAIN table.index :
             table.index[i] = table.index[j] => i = j
       /\ {table.index[i] : i \in DOMAIN table.index} = GeonameIdsCached(cache_dir)
       /\ Len(table.index) = Cardinality(GeonameIdsCached(cache_dir))

\* C6: the table read back from stats.csv equals the table that was saved:
\* the same index, of the same type, the same columns, the same cells.
C6_AggregationRoundTrip ==
    (/\ mode = "table"
     /\ IsFrame(table)
     /\ stats_csv = to_csv(table)
     /\ loaded # None)
    => loaded = table

\* C7: get_cities_with_population returns the rows of the dataset whose
\* population lies between the two bounds, both included, each once and as
\* it is in the dataset, and nothing when from_population > to_population.
C7_PopulationFilter ==
    (mode = "filter" /\ result # None)
    => LET rows == result.rows
           from == args.from_population
           to == args.to_population
           wanted == {i \in DOMAIN args.dataset :
                         /\ from <= args.dataset[i].population.int
                         /\ args.dataset[i].population.int <= to}
       IN /\ {rows[i] : i \in DOMAIN rows} = {args.dataset[i] : i \in wanted}
          /\ Len(rows) = Cardinality(wanted)
          /\ \A i, j \in DOMAIN rows : rows[i] = rows[j] => i = j
          /\ (from > to => rows = <<>>)

C7_Witness ==
    /\ mode = "filter"
    /\ result # None
    /\ Len(args.dataset) = 2
    /\ Len(result.rows) = 1
    /\ result.rows[1].population.int = args.to_population
    /\ args.from_population < args.to_population

\* C8: from any directory, write_city_graph for two cities of different
\* geoname_id, each with its own fetch outcome, leaves the same directory and
\* calls the fetcher as often for each city whichever call comes first.
C8_Commute ==
    (mode = "commute" /\ result.ab # None /\ result.ba # None)
    => /\ result.ab.dir = result.ba.dir
       /\ result.ab.fetched_a = result.ba.fetched_a
       /\ result.ab.fetched_b = result.ba.fetched_b

C8_Witness ==
    /\ mode = "commute"
    /\ result.ab # None /\ result.ba # None
    /\ args.a.name = args.b.name
    /\ args.a.country_code = args.b.country_code
    /\ DOMAIN cache_dir = {}
    /\ result.ab.fetched_a = 1 /\ result.ab.fetched_b = 1
    /\ Cardinality(DOMAIN result.ab.dir) = 2

\* C9 as stated: an iteration that has ended has yielded one pair per file
\* that was in the directory when iterate_over_downloaded_cities_graphs was
\* called.
YieldedFiles(g) == {y.file : y \in g.yielded}

C9_YieldsFilesAtCallTime ==
    (gen # None /\ gen.state = "done") => YieldedFiles(gen) = gen.at_call

\* C9 as amended: the directory is listed anew when the first element of an
\* iteration is asked for, whatever was iterated before; the iteration yields
\* no file outside that listing and none twice, each with the graph and the
\* decoded name of its file, one that ends normally has yielded them all, and
\* one that ends with an error met a file that does not decode or is not a
\* complete graph.
C9_ScanAtFirstNext ==
    /\ [](gen # None =>
            /\ YieldedFiles(gen) \subseteq gen.scan
            /\ gen.count = Cardinality(YieldedFiles(gen))
            /\ gen.scan \subseteq Glob(cache_dir)
            /\ \A y \in gen.yielded :
                 /\ y.graph = cache_dir[y.file] /\ y.graph # Truncated
                 /\ y.metadata = decode(y.file)
            /\ (gen.state = "done" => YieldedFiles(gen) = gen.scan)
            /\ (gen.state = "raised" =>
                  \E f \in gen.scan \ YieldedFiles(gen) :
                      IsRaise(decode(f)) \/ cache_dir[f] = Truncated))
    /\ [][(gen # None /\ gen.state = "created" /\ gen' # None
             /\ gen'.state # "created")
          => gen'.scan = Glob(cache_dir)]_vars
    /\ [][(gen # None /\ gen' # None /\ gen.state # "created"
             /\ gen'.state # "created")
          => gen'.scan = gen.scan]_vars

C9_Witness ==
    /\ gen # None
    /\ gen.state = "done"
    /\ gen.count >= 1
    /\ gen.at_call # gen.scan
    /\ gen.scan # Glob(cache_dir)

\* C10: the record of calculate_metrics_for_city_graph has, for every k of
\* the streets-per-node histogram, the columns {k}_way_int_count and
\* {k}_way_int_prop with the histogram's count and proportion, no other
\* column with _way_int_ in its name, neither raw histogram, the area, and
\* the metadata as passed in.
C10_MetricsSchema ==
    (mode = "metrics" /\ result # None)
    => LET stats == result.stats
           raw == basic_stats(args.graph)
           counts == raw[K_streets_per_node_counts].dict
           props == raw[K_streets_per_node_proportions].dict
       IN /\ \A k \in DOMAIN counts :
                /\ Digits(k) \o WayIntCount \in DOMAIN stats
                /\ stats[Digits(k) \o WayIntCount] = counts[k]
                /\ counts[k] =
                     PyInt(Cardinality({i \in DOMAIN args.graph.spn :
                                           args.graph.spn[i] = k}))
          /\ \A k \in DOMAIN props :
                /\ Digits(k) \o WayIntProp \in DOMAIN stats
                /\ stats[Digits(k) \o WayIntProp] = props[k]
          /\ \A key \in DOMAIN stats :
                Contains(key, WayInt) =>
                    \/ \E k \in DOMAIN counts : key = Digits(k) \o WayIntCount
                    \/ \E k \in DOMAIN props : key = Digits(k) \o WayIntProp
          /\ K_streets_per_node_counts \notin DOMAIN stats
          /\ K_streets_per_node_proportions \notin DOMAIN stats
          /\ K_area \in DOMAIN stats
          /\ stats[K_area] = PyFloat(args.graph.hull)
          /\ \A key \in DOMAIN args.metadata : stats[key] = args.metadata[key]
          /\ {K_geoname_id, K_name, K_country_code} \subseteq DOMAIN stats

C10_Witness ==
    /\ mode = "metrics"
    /\ result # None
    /\ args.graph.spn = <<2, 2, 2, 2>>
    /\ result.stats[<<"2">> \o WayIntCount] = PyInt(4)
    /\ result.stats[<<"2">> \o WayIntProp] = PyFloat(1000)
    /\ result.stats[K_n] = PyInt(4)

====
